---------------------------- MODULE Spec2Model ----------------------------
(***************************************************************************)
(* LiqGuard: two on-chain programs.                                        *)
(*                                                                         *)
(*   policyfactory  create_policy / activate_policy / close_policy on      *)
(*                  PolicyA records held at the address derived from       *)
(*                  (authority, nonce), with SPL token custody accounts.   *)
(*   liqguard       initialize_policy / liquidate_policy on PolicyB        *)
(*                  records and vaults derived from the owner, with an     *)
(*                  oracle observation deciding the payout.                *)
(*                                                                         *)
(* Every instruction runs as one ledger transaction: the account checks of *)
(* its Accounts struct, then the handler; an error anywhere discards every *)
(* change of the instruction.  Each instruction is one action; `last`      *)
(* records the instruction that ran last and its outcome.                  *)
(***************************************************************************)
EXTENDS Integers, Sequences, FiniteSets, TLC

VARIABLES
    policies,   \* policyfactory: derived address (authority, nonce) -> account
    tokens,     \* SPL token accounts: (owner, mint) -> amount
    created,    \* history: successful create_policy calls per address
    closed,     \* history: successful close_policy calls per address
    activations, \* history: successful activate_policy calls on the record last created
    policyB,    \* liqguard: owner -> Policy account at seeds ["policy", owner]
    lamports,   \* native balances of the vaults and wallets liqguard touches
    claims,     \* history: successful liquidate_policy calls per owner
    paid,       \* history: lamports liquidate_policy debited from each owner's vault
    origin,     \* history: each record as create_policy / initialize_policy wrote it
    initializations, \* history: successful initialize_policy calls per owner
    last        \* the last instruction: its name, arguments and outcome

vars == <<policies, tokens, created, closed, activations, policyB, lamports, claims, paid, origin, initializations, last>>

(***************************************************************************)
(* Bounds of the model.                                                    *)
(***************************************************************************)
MaxPremium == 2       \* create_policy is called with premium in 0..MaxPremium
MaxCoverage == 3      \* and with coverage_amount in 0..MaxCoverage
MaxCreates == 3       \* create_policy is followed up to this many successes per address
InitialBalance == 2   \* tokens every custody account holds at the start
MaxVault == 2         \* lamports sent to a vault from outside stop at this balance

(***************************************************************************)
(* policyfactory: identities, terms, accounts.                             *)
(***************************************************************************)
PROGRAM_AUTHORITY == "GhgQwWfyZqjjaDBtVUmmc3rg9NEX9qQYhew1ACFRJmp8"

Wallets == {PROGRAM_AUTHORITY, "alice"}
Mints == {"mintX"}
Nonces == {0}
Premiums == 0..MaxPremium
Coverages == 0..MaxCoverage
Strikes == {0, 95000}
Expirations == {1700000000}

UnderlyingAsset == {"BTC", "ETH", "SOL"}
CallOrPut == {"Call", "Put"}
PolicyStatus == {"Inactive", "Active"}

\* The asset and option tags create_policy is called with.
Tags == {<<"BTC", "Call">>}

\* An address that holds no account (never created, or closed).
NoAccount == [initialized |-> FALSE]

\* seeds = [b"policy", authority, nonce]
PolicyAddress(authority, nonce) == <<authority, nonce>>
PolicyAddresses == Wallets \X Nonces
\* create_policy succeeds for PROGRAM_AUTHORITY alone, so the addresses derived
\* from another authority never hold an account; activate_policy and
\* close_policy are called on the addresses derived from PROGRAM_AUTHORITY.
ProgramPolicyAddresses == {PolicyAddress(PROGRAM_AUTHORITY, n) : n \in Nonces}

get_associated_token_address(wallet, mint) == <<wallet, mint>>
TokenAccounts == Wallets \X Mints

Policy(authority, nonce, strike_price, expiration_datetime, underlying_asset, call_or_put, coverage_amount, premium, payout_wallet, payment_mint, status) ==
    [initialized |-> TRUE,
     authority |-> authority,
     nonce |-> nonce,
     strike_price |-> strike_price,
     expiration_datetime |-> expiration_datetime,
     underlying_asset |-> underlying_asset,
     call_or_put |-> call_or_put,
     coverage_amount |-> coverage_amount,
     premium |-> premium,
     payout_wallet |-> payout_wallet,
     payment_mint |-> payment_mint,
     status |-> status]

(***************************************************************************)
(* token::transfer of the SPL token program: it fails when the source      *)
(* holds less than the amount or the two accounts are of different mints;  *)
(* it debits the source and then credits the destination.                  *)
(***************************************************************************)
token_transfer(tok, from, to, amount) ==
    IF from[2] # to[2] THEN [ok |-> FALSE, tokens |-> tok]
    ELSE IF tok[from] < amount THEN [ok |-> FALSE, tokens |-> tok]
    ELSE [ok |-> TRUE,
          tokens |-> [[tok EXCEPT ![from] = @ - amount] EXCEPT ![to] = @ + amount]]

\* What a handler returns: its error ("Ok" for Ok(())) and the accounts as it
\* left them.
Outcome(err, pols, tok) == [err |-> err, policies |-> pols, tokens |-> tok]

(***************************************************************************)
(* create_policy.  CreatePolicy's `init` allocates the account at the      *)
(* derived address and fails when one is there; then the handler runs.     *)
(***************************************************************************)
\* Variant: the strike price is not validated.
create_policy_handler_any_strike(pols, tok, authority, nonce, strike_price, expiration_datetime, underlying_asset, call_or_put, coverage_amount, premium, payout_wallet, payment_mint) ==
    IF ~(premium > 0) THEN Outcome("InvalidAmount", pols, tok)
    ELSE IF ~(coverage_amount > 0) THEN Outcome("InvalidAmount", pols, tok)
    ELSE IF authority # PROGRAM_AUTHORITY
        THEN Outcome("UnauthorizedProgramAuthority", pols, tok)
    ELSE Outcome("Ok",
                 [pols EXCEPT ![PolicyAddress(authority, nonce)] =
                     Policy(authority, nonce, strike_price, expiration_datetime,
                            underlying_asset, call_or_put, coverage_amount, premium,
                            payout_wallet, payment_mint, "Inactive")],
                 tok)

\* Variant: the record is written with status Active.
create_policy_handler_active(pols, tok, authority, nonce, strike_price, expiration_datetime, underlying_asset, call_or_put, coverage_amount, premium, payout_wallet, payment_mint) ==
    IF ~(premium > 0) THEN Outcome("InvalidAmount", pols, tok)
    ELSE IF ~(coverage_amount > 0) THEN Outcome("InvalidAmount", pols, tok)
    ELSE IF ~(strike_price > 0) THEN Outcome("InvalidAmount", pols, tok)
    ELSE IF authority # PROGRAM_AUTHORITY
        THEN Outcome("UnauthorizedProgramAuthority", pols, tok)
    ELSE Outcome("Ok",
                 [pols EXCEPT ![PolicyAddress(authority, nonce)] =
                     Policy(authority, nonce, strike_price, expiration_datetime,
                            underlying_asset, call_or_put, coverage_amount, premium,
                            payout_wallet, payment_mint, "Active")],
                 tok)

create_policy_handler(pols, tok, authority, nonce, strike_price, expiration_datetime, underlying_asset, call_or_put, coverage_amount, premium, payout_wallet, payment_mint) ==
    IF ~(premium > 0) THEN Outcome("InvalidAmount", pols, tok)
    ELSE IF ~(coverage_amount > 0) THEN Outcome("InvalidAmount", pols, tok)
    ELSE IF ~(strike_price > 0) THEN Outcome("InvalidAmount", pols, tok)
    ELSE IF authority # PROGRAM_AUTHORITY
        THEN Outcome("UnauthorizedProgramAuthority", pols, tok)
    ELSE Outcome("Ok",
                 [pols EXCEPT ![PolicyAddress(authority, nonce)] =
                     Policy(authority, nonce, strike_price, expiration_datetime,
                            underlying_asset, call_or_put, coverage_amount, premium,
                            payout_wallet, payment_mint, "Inactive")],
                 tok)

\* Variant: `init_if_needed` in place of `init`, the handler runs on an
\* address that holds an account.
CreatePolicy_init_if_needed(pols, tok, authority, nonce, strike_price, expiration_datetime, underlying_asset, call_or_put, coverage_amount, premium, payout_wallet, payment_mint) ==
    create_policy_handler(pols, tok, authority, nonce, strike_price,
                          expiration_datetime, underlying_asset, call_or_put,
                          coverage_amount, premium, payout_wallet, payment_mint)

CreatePolicy(pols, tok, authority, nonce, strike_price, expiration_datetime, underlying_asset, call_or_put, coverage_amount, premium, payout_wallet, payment_mint) ==
    IF pols[PolicyAddress(authority, nonce)].initialized
        THEN Outcome("AccountInUse", pols, tok)
    ELSE create_policy_handler(pols, tok, authority, nonce, strike_price,
                               expiration_datetime, underlying_asset, call_or_put,
                               coverage_amount, premium, payout_wallet, payment_mint)

(***************************************************************************)
(* activate_policy.  ActivatePolicy takes an existing Policy account and   *)
(* binds payer_token_account to the payer's associated account of          *)
(* policy.payment_mint; authority_token_account is any token account.      *)
(***************************************************************************)
\* Variant: no balance check, and the result of the transfer is dropped.
activate_policy_handler_ignores_transfer(pols, tok, payer, addr, authority_token_account) ==
    LET policy == pols[addr]
        payer_token_account == get_associated_token_address(payer, policy.payment_mint)
        expected_ata == get_associated_token_address(policy.authority, policy.payment_mint)
        cpi == token_transfer(tok, payer_token_account, authority_token_account,
                              policy.premium)
    IN  IF payer # policy.payout_wallet THEN Outcome("UnauthorizedPayer", pols, tok)
        ELSE IF policy.status # "Inactive" THEN Outcome("PolicyAlreadyActive", pols, tok)
        ELSE IF authority_token_account # expected_ata
            THEN Outcome("InvalidTokenAccount", pols, tok)
        ELSE Outcome("Ok", [pols EXCEPT ![addr].status = "Active"], cpi.tokens)

\* Variant: the payer must hold more than the premium.
activate_policy_handler_strict_balance(pols, tok, payer, addr, authority_token_account) ==
    LET policy == pols[addr]
        payer_token_account == get_associated_token_address(payer, policy.payment_mint)
        expected_ata == get_associated_token_address(policy.authority, policy.payment_mint)
        cpi == token_transfer(tok, payer_token_account, authority_token_account,
                              policy.premium)
    IN  IF payer # policy.payout_wallet THEN Outcome("UnauthorizedPayer", pols, tok)
        ELSE IF policy.status # "Inactive" THEN Outcome("PolicyAlreadyActive", pols, tok)
        ELSE IF ~(tok[payer_token_account] > policy.premium)
            THEN Outcome("InsufficientBalance", pols, tok)
        ELSE IF authority_token_account # expected_ata
            THEN Outcome("InvalidTokenAccount", pols, tok)
        ELSE IF ~cpi.ok THEN Outcome("TokenTransferFailed", pols, tok)
        ELSE Outcome("Ok", [pols EXCEPT ![addr].status = "Active"], cpi.tokens)

\* Variant: the status is not checked.
activate_policy_handler_any_status(pols, tok, payer, addr, authority_token_account) ==
    LET policy == pols[addr]
        payer_token_account == get_associated_token_address(payer, policy.payment_mint)
        expected_ata == get_associated_token_address(policy.authority, policy.payment_mint)
        cpi == token_transfer(tok, payer_token_account, authority_token_account,
                              policy.premium)
    IN  IF payer # policy.payout_wallet THEN Outcome("UnauthorizedPayer", pols, tok)
        ELSE IF ~(tok[payer_token_account] >= policy.premium)
            THEN Outcome("InsufficientBalance", pols, tok)
        ELSE IF authority_token_account # expected_ata
            THEN Outcome("InvalidTokenAccount", pols, tok)
        ELSE IF ~cpi.ok THEN Outcome("TokenTransferFailed", pols, tok)
        ELSE Outcome("Ok", [pols EXCEPT ![addr].status = "Active"], cpi.tokens)

\* Variant: the status is checked before the payer.
activate_policy_handler_status_first(pols, tok, payer, addr, authority_token_account) ==
    LET policy == pols[addr]
        payer_token_account == get_associated_token_address(payer, policy.payment_mint)
        expected_ata == get_associated_token_address(policy.authority, policy.payment_mint)
        cpi == token_transfer(tok, payer_token_account, authority_token_account,
                              policy.premium)
    IN  IF policy.status # "Inactive" THEN Outcome("PolicyAlreadyActive", pols, tok)
        ELSE IF payer # policy.payout_wallet THEN Outcome("UnauthorizedPayer", pols, tok)
        ELSE IF ~(tok[payer_token_account] >= policy.premium)
            THEN Outcome("InsufficientBalance", pols, tok)
        ELSE IF authority_token_account # expected_ata
            THEN Outcome("InvalidTokenAccount", pols, tok)
        ELSE IF ~cpi.ok THEN Outcome("TokenTransferFailed", pols, tok)
        ELSE Outcome("Ok", [pols EXCEPT ![addr].status = "Active"], cpi.tokens)

activate_policy_handler(pols, tok, payer, addr, authority_token_account) ==
    LET policy == pols[addr]
        payer_token_account == get_associated_token_address(payer, policy.payment_mint)
        expected_ata == get_associated_token_address(policy.authority, policy.payment_mint)
        cpi == token_transfer(tok, payer_token_account, authority_token_account,
                              policy.premium)
    IN  IF payer # policy.payout_wallet THEN Outcome("UnauthorizedPayer", pols, tok)
        ELSE IF policy.status # "Inactive" THEN Outcome("PolicyAlreadyActive", pols, tok)
        ELSE IF ~(tok[payer_token_account] >= policy.premium)
            THEN Outcome("InsufficientBalance", pols, tok)
        ELSE IF authority_token_account # expected_ata
            THEN Outcome("InvalidTokenAccount", pols, tok)
        ELSE IF ~cpi.ok THEN Outcome("TokenTransferFailed", pols, tok)
        ELSE Outcome("Ok", [pols EXCEPT ![addr].status = "Active"], cpi.tokens)

ActivatePolicy(pols, tok, payer, addr, authority_token_account) ==
    IF ~pols[addr].initialized THEN Outcome("AccountNotInitialized", pols, tok)
    ELSE activate_policy_handler(pols, tok, payer, addr, authority_token_account)

(***************************************************************************)
(* close_policy.  ClosePolicy takes an existing Policy account with        *)
(* `close = authority`: once the handler returned Ok the account is        *)
(* deleted.  Both token accounts are any token accounts.                   *)
(***************************************************************************)
\* Variant: no balance check, and the result of the transfer is dropped.
close_policy_handler_ignores_transfer(pols, tok, authority, addr, payout, authority_token_account, payout_token_account) ==
    LET policy == pols[addr]
        expected_authority_ata ==
            get_associated_token_address(policy.authority, policy.payment_mint)
        expected_payout_ata ==
            get_associated_token_address(policy.payout_wallet, policy.payment_mint)
        cpi == token_transfer(tok, authority_token_account, payout_token_account,
                              policy.coverage_amount)
    IN  IF authority # PROGRAM_AUTHORITY
            THEN Outcome("UnauthorizedProgramAuthority", pols, tok)
        ELSE IF payout /\ policy.status = "Active"
            THEN IF authority_token_account # expected_authority_ata
                     THEN Outcome("InvalidTokenAccount", pols, tok)
                 ELSE IF payout_token_account # expected_payout_ata
                     THEN Outcome("InvalidTokenAccount", pols, tok)
                 ELSE Outcome("Ok", pols, cpi.tokens)
        ELSE Outcome("Ok", pols, tok)

\* Variant: the payout transfers the premium.
close_policy_handler_pays_premium(pols, tok, authority, addr, payout, authority_token_account, payout_token_account) ==
    LET policy == pols[addr]
        expected_authority_ata ==
            get_associated_token_address(policy.authority, policy.payment_mint)
        expected_payout_ata ==
            get_associated_token_address(policy.payout_wallet, policy.payment_mint)
        cpi == token_transfer(tok, authority_token_account, payout_token_account,
                              policy.premium)
    IN  IF authority # PROGRAM_AUTHORITY
            THEN Outcome("UnauthorizedProgramAuthority", pols, tok)
        ELSE IF payout /\ policy.status = "Active"
            THEN IF authority_token_account # expected_authority_ata
                     THEN Outcome("InvalidTokenAccount", pols, tok)
                 ELSE IF payout_token_account # expected_payout_ata
                     THEN Outcome("InvalidTokenAccount", pols, tok)
                 ELSE IF ~(tok[authority_token_account] >= policy.coverage_amount)
                     THEN Outcome("InsufficientBalance", pols, tok)
                 ELSE IF ~cpi.ok THEN Outcome("TokenTransferFailed", pols, tok)
                 ELSE Outcome("Ok", pols, cpi.tokens)
        ELSE Outcome("Ok", pols, tok)

\* Variant: the payout branch is taken whatever the status.
close_policy_handler_any_status(pols, tok, authority, addr, payout, authority_token_account, payout_token_account) ==
    LET policy == pols[addr]
        expected_authority_ata ==
            get_associated_token_address(policy.authority, policy.payment_mint)
        expected_payout_ata ==
            get_associated_token_address(policy.payout_wallet, policy.payment_mint)
        cpi == token_transfer(tok, authority_token_account, payout_token_account,
                              policy.coverage_amount)
    IN  IF authority # PROGRAM_AUTHORITY
            THEN Outcome("UnauthorizedProgramAuthority", pols, tok)
        ELSE IF payout
            THEN IF authority_token_account # expected_authority_ata
                     THEN Outcome("InvalidTokenAccount", pols, tok)
                 ELSE IF payout_token_account # expected_payout_ata
                     THEN Outcome("InvalidTokenAccount", pols, tok)
                 ELSE IF ~(tok[authority_token_account] >= policy.coverage_amount)
                     THEN Outcome("InsufficientBalance", pols, tok)
                 ELSE IF ~cpi.ok THEN Outcome("TokenTransferFailed", pols, tok)
                 ELSE Outcome("Ok", pols, cpi.tokens)
        ELSE Outcome("Ok", pols, tok)

close_policy_handler(pols, tok, authority, addr, payout, authority_token_account, payout_token_account) ==
    LET policy == pols[addr]
        expected_authority_ata ==
            get_associated_token_address(policy.authority, policy.payment_mint)
        expected_payout_ata ==
            get_associated_token_address(policy.payout_wallet, policy.payment_mint)
        cpi == token_transfer(tok, authority_token_account, payout_token_account,
                              policy.coverage_amount)
    IN  IF authority # PROGRAM_AUTHORITY
            THEN Outcome("UnauthorizedProgramAuthority", pols, tok)
        ELSE IF payout /\ policy.status = "Active"
            THEN IF authority_token_account # expected_authority_ata
                     THEN Outcome("InvalidTokenAccount", pols, tok)
                 ELSE IF payout_token_account # expected_payout_ata
                     THEN Outcome("InvalidTokenAccount", pols, tok)
                 ELSE IF ~(tok[authority_token_account] >= policy.coverage_amount)
                     THEN Outcome("InsufficientBalance", pols, tok)
                 ELSE IF ~cpi.ok THEN Outcome("TokenTransferFailed", pols, tok)
                 ELSE Outcome("Ok", pols, cpi.tokens)
        ELSE Outcome("Ok", pols, tok)

ClosePolicy(pols, tok, authority, addr, payout, authority_token_account, payout_token_account) ==
    IF ~pols[addr].initialized THEN Outcome("AccountNotInitialized", pols, tok)
    ELSE LET r == close_policy_handler(pols, tok, authority, addr, payout,
                                       authority_token_account, payout_token_account)
         IN  IF r.err = "Ok"
                 THEN Outcome("Ok", [r.policies EXCEPT ![addr] = NoAccount], r.tokens)
             ELSE r

(***************************************************************************)
(* The ledger commits an instruction's changes only when it returned Ok.   *)
(***************************************************************************)
Committed(r) == IF r.err = "Ok" THEN r ELSE Outcome(r.err, policies, tokens)

Commit(r) ==
    /\ policies' = Committed(r).policies
    /\ tokens' = Committed(r).tokens

\* Whether a supplied token account is the associated account, for the payment
\* mint of the policy at `addr`, of the wallet the policy names in `wallet_field`.
IsExpectedAta(addr, wallet_field, account) ==
    /\ policies[addr].initialized
    /\ account = get_associated_token_address(policies[addr][wallet_field],
                                              policies[addr].payment_mint)

\* The instruction that ran last: its name, the policy address it named and its
\* error.  A close_policy that succeeded deleted the record, so `last` also
\* keeps what the call was made with: the payout flag, the record as it was
\* and whether the two supplied token accounts were the expected ones.
Failed(op, addr, err) ==
    [op |-> op, addr |-> addr, err |-> err, payout |-> FALSE, before |-> NoAccount,
     authority_ata_expected |-> FALSE, payout_ata_expected |-> FALSE]

Done(op, addr) == Failed(op, addr, "Ok")

Closed(addr, payout, authority_token_account, payout_token_account) ==
    [op |-> "close_policy", addr |-> addr, err |-> "Ok", payout |-> payout,
     before |-> policies[addr],
     authority_ata_expected |-> IsExpectedAta(addr, "authority", authority_token_account),
     payout_ata_expected |-> IsExpectedAta(addr, "payout_wallet", payout_token_account)]

create_policy(authority, nonce, strike_price, expiration_datetime, underlying_asset, call_or_put, coverage_amount, premium, payout_wallet, payment_mint) ==
    LET addr == PolicyAddress(authority, nonce)
        r == CreatePolicy(policies, tokens, authority, nonce, strike_price,
                          expiration_datetime, underlying_asset, call_or_put,
                          coverage_amount, premium, payout_wallet, payment_mint)
    IN  /\ created[addr] < MaxCreates
        /\ Commit(r)
        /\ created' = IF r.err = "Ok" THEN [created EXCEPT ![addr] = @ + 1] ELSE created
        /\ last' = Failed("create_policy", addr, r.err)
        /\ activations' = IF r.err = "Ok" THEN [activations EXCEPT ![addr] = 0]
                           ELSE activations
        /\ origin' = IF r.err = "Ok" THEN [origin EXCEPT !.policies[addr] = r.policies[addr]]
                      ELSE origin
        /\ UNCHANGED <<closed, policyB, lamports, claims, paid, initializations>>

activate_policy(payer, addr, authority_token_account) ==
    LET r == ActivatePolicy(policies, tokens, payer, addr, authority_token_account)
    IN  /\ Commit(r)
        /\ last' = Failed("activate_policy", addr, r.err)
        /\ activations' = IF r.err = "Ok" THEN [activations EXCEPT ![addr] = @ + 1]
                           ELSE activations
        /\ UNCHANGED <<created, closed, policyB, lamports, claims, paid, origin, initializations>>

close_policy(authority, addr, payout, authority_token_account, payout_token_account) ==
    LET r == ClosePolicy(policies, tokens, authority, addr, payout,
                         authority_token_account, payout_token_account)
    IN  /\ Commit(r)
        /\ closed' = IF r.err = "Ok" THEN [closed EXCEPT ![addr] = @ + 1] ELSE closed
        /\ last' = IF r.err = "Ok"
                       THEN Closed(addr, payout, authority_token_account,
                                   payout_token_account)
                   ELSE Failed("close_policy", addr, r.err)
        /\ UNCHANGED <<created, activations, policyB, lamports, claims, paid, origin, initializations>>

(***************************************************************************)
(* liqguard.  Prices are 64-bit: a number is the sequence of its decimal    *)
(* digits, most significant first, without leading zeros (zero is <<0>>).  *)
(***************************************************************************)
Zero == <<0>>
U64_MAX == <<1, 8, 4, 4, 6, 7, 4, 4, 0, 7, 3, 7, 0, 9, 5, 5, 1, 6, 1, 5>>

RECURSIVE Strip(_)
Strip(d) == IF Len(d) > 1 /\ d[1] = 0 THEN Strip(Tail(d)) ELSE d

RECURSIVE ToDigits(_)
ToDigits(n) == IF n < 10 THEN <<n>> ELSE Append(ToDigits(n \div 10), n % 10)

RECURSIVE LexLess(_, _)
LexLess(a, b) ==
    /\ a # <<>>
    /\ \/ a[1] < b[1]
       \/ a[1] = b[1] /\ LexLess(Tail(a), Tail(b))

\* a < b
Less(a, b) == Len(a) < Len(b) \/ (Len(a) = Len(b) /\ LexLess(a, b))

\* a - b for a >= b, digit by digit from the right with a borrow.
RECURSIVE SubDigits(_, _, _)
SubDigits(a, b, borrow) ==
    IF a = <<>> THEN <<>>
    ELSE LET x == a[Len(a)]
             y == (IF b = <<>> THEN 0 ELSE b[Len(b)]) + borrow
             rest_a == SubSeq(a, 1, Len(a) - 1)
             rest_b == IF b = <<>> THEN <<>> ELSE SubSeq(b, 1, Len(b) - 1)
         IN  IF x >= y THEN Append(SubDigits(rest_a, rest_b, 0), x - y)
             ELSE Append(SubDigits(rest_a, rest_b, 1), x + 10 - y)

Sub(a, b) == Strip(SubDigits(a, b, 0))

\* How many times b goes into r (r < 10 * b), and what is left.
RECURSIVE QuotientDigit(_, _, _)
QuotientDigit(r, b, q) ==
    IF Less(r, b) THEN [q |-> q, r |-> r] ELSE QuotientDigit(Sub(r, b), b, q + 1)

\* Long division of a by b # 0: the quotient so far, the running remainder and
\* the digits of a still to bring down.
RECURSIVE LongDivision(_, _, _, _)
LongDivision(todo, b, quotient, remainder) ==
    IF todo = <<>> THEN Strip(quotient)
    ELSE LET step == QuotientDigit(Strip(Append(remainder, todo[1])), b, 0)
         IN  LongDivision(Tail(todo), b, Append(quotient, step.q), step.r)

None == [some |-> FALSE]
Some(v) == [some |-> TRUE, value |-> v]

\* Variant: the multiplication is not checked against the 64 bits.
checked_mul_10_unchecked(a) == Some(IF a = Zero THEN Zero ELSE Append(a, 0))

\* u64::checked_mul by ten.
checked_mul_10(a) ==
    LET product == IF a = Zero THEN Zero ELSE Append(a, 0)
    IN  IF Less(U64_MAX, product) THEN None ELSE Some(product)

\* 10u64.checked_pow(exp): None as soon as the power leaves the 64 bits.
RECURSIVE checked_pow_10(_)
checked_pow_10(exp) ==
    IF exp = 0 THEN Some(<<1>>)
    ELSE LET lower == checked_pow_10(exp - 1)
         IN  IF lower.some THEN checked_mul_10(lower.value) ELSE None

\* u64::checked_div: None for a zero divisor, else the truncating quotient.
checked_div(a, b) == IF b = Zero THEN None ELSE Some(LongDivision(a, b, <<>>, Zero))

\* i32::abs
abs(x) == IF x < 0 THEN -x ELSE x

(***************************************************************************)
(* liqguard: identities, accounts, oracle observations.                    *)
(***************************************************************************)
MAXIMUM_AGE == 60

Owners == {"bob"}
Signers == Owners \cup {"mallory"}
StrikePrices == {95000}
CoverageAmounts == 0..MaxCoverage

\* seeds = [b"policy", owner] and [b"vault", owner]
Vault(owner) == <<"vault", owner>>
Wallet(who) == <<"wallet", who>>
LamportAccounts == {Vault(o) : o \in Owners} \cup {Wallet(w) : w \in Signers}

\* An i64 magnitude: its sign and the digits of its absolute value.
Magnitude(negative, digits) == [negative |-> negative, digits |-> digits]
Magnitudes ==
    { Magnitude(TRUE, <<1>>),
      Magnitude(FALSE, Zero),
      Magnitude(FALSE, <<9, 4, 9, 9, 9, 9, 9, 9, 9, 9, 9, 9, 9>>),
      Magnitude(FALSE, <<9, 5, 0, 0, 0, 0, 0, 0, 0, 0, 0, 0, 0>>),
      Magnitude(FALSE, <<9, 5, 0, 0, 1, 0, 0, 0, 0, 0, 0, 0, 0>>) }
Exponents == {-8, 8, -19, -20}
Ages == {0, MAXIMUM_AGE, MAXIMUM_AGE + 1}

\* What the price update account holds for the BTC/USD feed, and how old it is.
Observations ==
    [age : Ages, magnitude : Magnitudes, exponent : Exponents]

PolicyB(owner, strike_price, is_long_insurance, coverage_amount, is_claimed) ==
    [initialized |-> TRUE,
     owner |-> owner,
     strike_price |-> strike_price,
     is_long_insurance |-> is_long_insurance,
     coverage_amount |-> coverage_amount,
     is_claimed |-> is_claimed]

(***************************************************************************)
(* system_program::transfer: it fails when the source holds less than the  *)
(* amount; it debits the source and then credits the destination.          *)
(***************************************************************************)
system_transfer(lam, from, to, amount) ==
    IF lam[from] < amount THEN [ok |-> FALSE, lamports |-> lam]
    ELSE [ok |-> TRUE,
          lamports |-> [[lam EXCEPT ![from] = @ - amount] EXCEPT ![to] = @ + amount]]

OutcomeB(err, pols, lam) == [err |-> err, policyB |-> pols, lamports |-> lam]

(***************************************************************************)
(* initialize_policy.  InitializePolicy's two `init` allocate the policy   *)
(* and the vault at the addresses derived from the owner and fail when an  *)
(* account is there; the handler then fills the policy in.                 *)
(***************************************************************************)
initialize_policy_handler(pols, lam, owner, strike_price, is_long_insurance, coverage_amount) ==
    OutcomeB("Ok",
             [pols EXCEPT ![owner] =
                 PolicyB(owner, strike_price, is_long_insurance, coverage_amount, FALSE)],
             lam)

\* Variant: the address of a claimed policy is free again.
InitializePolicy_after_claim(pols, lam, owner, strike_price, is_long_insurance, coverage_amount) ==
    IF pols[owner].initialized /\ ~pols[owner].is_claimed
        THEN OutcomeB("AccountInUse", pols, lam)
    ELSE initialize_policy_handler(pols, lam, owner, strike_price, is_long_insurance,
                                   coverage_amount)

\* Variant: `init_if_needed` in place of `init`.
InitializePolicy_init_if_needed(pols, lam, owner, strike_price, is_long_insurance, coverage_amount) ==
    initialize_policy_handler(pols, lam, owner, strike_price, is_long_insurance,
                              coverage_amount)

InitializePolicy(pols, lam, owner, strike_price, is_long_insurance, coverage_amount) ==
    IF pols[owner].initialized THEN OutcomeB("AccountInUse", pols, lam)
    ELSE initialize_policy_handler(pols, lam, owner, strike_price, is_long_insurance,
                                   coverage_amount)

(***************************************************************************)
(* liquidate_policy.                                                       *)
(***************************************************************************)
\* Variant: an observation as old as maximum_age is refused.
get_price_younger_than(observation, maximum_age) ==
    IF observation.age < maximum_age
        THEN Some([magnitude |-> observation.magnitude, exponent |-> observation.exponent])
    ELSE None

\* price_update.get_price_no_older_than(&btc_feed_id, 60)
get_price_no_older_than(observation, maximum_age) ==
    IF observation.age <= maximum_age
        THEN Some([magnitude |-> observation.magnitude, exponent |-> observation.exponent])
    ELSE None

\* Step 3 of the handler: the price in USD, or None for MathOverflow.
current_price(price) ==
    IF ~(~price.magnitude.negative) THEN None
    ELSE LET normalization_factor == checked_pow_10(abs(price.exponent))
         IN  IF ~normalization_factor.some THEN None
             ELSE checked_div(price.magnitude.digits, normalization_factor.value)

\* current_price of every price an observation of the model can carry, as a
\* table TLC evaluates once, and the lookup in it.
PriceInputs == [magnitude : Magnitudes, exponent : Exponents]
PriceTable == {<<price, current_price(price)>> : price \in PriceInputs}
CurrentPrice(price) == (CHOOSE entry \in PriceTable : entry[1] = price)[2]

\* Variant: the comparisons include equality.
should_liquidate_inclusive(policy, price) ==
    IF policy.is_long_insurance
        THEN ~Less(ToDigits(policy.strike_price), price)
    ELSE ~Less(price, ToDigits(policy.strike_price))

\* Step 4 of the handler.
should_liquidate(policy, price) ==
    IF policy.is_long_insurance
        THEN Less(price, ToDigits(policy.strike_price))
    ELSE Less(ToDigits(policy.strike_price), price)

\* Variant: the price is read before the claimed flag.
liquidate_policy_handler_price_first(pols, lam, owner, user, observation) ==
    LET policy == pols[owner]
        price_info == get_price_no_older_than(observation, MAXIMUM_AGE)
        price == CurrentPrice(price_info.value)
        cpi == system_transfer(lam, Vault(policy.owner), user, policy.coverage_amount)
    IN  IF ~price_info.some THEN OutcomeB("PriceStale", pols, lam)
        ELSE IF ~(~policy.is_claimed) THEN OutcomeB("AlreadyClaimed", pols, lam)
        ELSE IF ~price.some THEN OutcomeB("MathOverflow", pols, lam)
        ELSE IF ~should_liquidate(policy, price.value)
            THEN OutcomeB("LiquidationConditionNotMet", pols, lam)
        ELSE IF ~cpi.ok THEN OutcomeB("TransferFailed", pols, lam)
        ELSE OutcomeB("Ok", [pols EXCEPT ![owner].is_claimed = TRUE], cpi.lamports)

\* Variant: the coverage is cleared once it is paid.
liquidate_policy_handler_clears_coverage(pols, lam, owner, user, observation) ==
    LET policy == pols[owner]
        price_info == get_price_no_older_than(observation, MAXIMUM_AGE)
        price == CurrentPrice(price_info.value)
        cpi == system_transfer(lam, Vault(policy.owner), user, policy.coverage_amount)
    IN  IF ~(~policy.is_claimed) THEN OutcomeB("AlreadyClaimed", pols, lam)
        ELSE IF ~price_info.some THEN OutcomeB("PriceStale", pols, lam)
        ELSE IF ~price.some THEN OutcomeB("MathOverflow", pols, lam)
        ELSE IF ~should_liquidate(policy, price.value)
            THEN OutcomeB("LiquidationConditionNotMet", pols, lam)
        ELSE IF ~cpi.ok THEN OutcomeB("TransferFailed", pols, lam)
        ELSE OutcomeB("Ok",
                      [pols EXCEPT ![owner].is_claimed = TRUE, ![owner].coverage_amount = 0],
                      cpi.lamports)

\* Variant: the result of the transfer is dropped.
liquidate_policy_handler_ignores_transfer(pols, lam, owner, user, observation) ==
    LET policy == pols[owner]
        price_info == get_price_no_older_than(observation, MAXIMUM_AGE)
        price == CurrentPrice(price_info.value)
        cpi == system_transfer(lam, Vault(policy.owner), user, policy.coverage_amount)
    IN  IF ~(~policy.is_claimed) THEN OutcomeB("AlreadyClaimed", pols, lam)
        ELSE IF ~price_info.some THEN OutcomeB("PriceStale", pols, lam)
        ELSE IF ~price.some THEN OutcomeB("MathOverflow", pols, lam)
        ELSE IF ~should_liquidate(policy, price.value)
            THEN OutcomeB("LiquidationConditionNotMet", pols, lam)
        ELSE OutcomeB("Ok", [pols EXCEPT ![owner].is_claimed = TRUE], cpi.lamports)

liquidate_policy_handler(pols, lam, owner, user, observation) ==
    LET policy == pols[owner]
        price_info == get_price_no_older_than(observation, MAXIMUM_AGE)
        price == CurrentPrice(price_info.value)
        cpi == system_transfer(lam, Vault(policy.owner), user, policy.coverage_amount)
    IN  IF ~(~policy.is_claimed) THEN OutcomeB("AlreadyClaimed", pols, lam)
        ELSE IF ~price_info.some THEN OutcomeB("PriceStale", pols, lam)
        ELSE IF ~price.some THEN OutcomeB("MathOverflow", pols, lam)
        ELSE IF ~should_liquidate(policy, price.value)
            THEN OutcomeB("LiquidationConditionNotMet", pols, lam)
        ELSE IF ~cpi.ok THEN OutcomeB("TransferFailed", pols, lam)
        ELSE OutcomeB("Ok", [pols EXCEPT ![owner].is_claimed = TRUE], cpi.lamports)

\* LiquidatePolicy takes an existing Policy account; its seeds bind the vault
\* to the one derived from policy.owner.  `user` is any account.
LiquidatePolicy(pols, lam, owner, user, observation) ==
    IF ~pols[owner].initialized THEN OutcomeB("AccountNotInitialized", pols, lam)
    ELSE liquidate_policy_handler(pols, lam, owner, user, observation)

CommittedB(r) == IF r.err = "Ok" THEN r ELSE OutcomeB(r.err, policyB, lamports)

CommitB(r) ==
    /\ policyB' = CommittedB(r).policyB
    /\ lamports' = CommittedB(r).lamports

NoObservation == [age |-> 0, magnitude |-> Magnitude(FALSE, Zero), exponent |-> 0]
Nobody == <<"none", "none">>

\* The liqguard instruction that ran last.  What a failed liquidate_policy was
\* called with is kept but for the signer and the recipient, which no gate
\* reads.
LastB(op, owner, err, signer, user, observation) ==
    [op |-> op, owner |-> owner, err |-> err, signer |-> signer, user |-> user,
     observation |-> observation]

initialize_policy(owner, strike_price, is_long_insurance, coverage_amount) ==
    LET r == InitializePolicy(policyB, lamports, owner, strike_price, is_long_insurance,
                              coverage_amount)
    IN  /\ CommitB(r)
        /\ last' = LastB("initialize_policy", owner, r.err, owner, Nobody, NoObservation)
        /\ origin' = IF r.err = "Ok" THEN [origin EXCEPT !.policyB[owner] = r.policyB[owner]]
                      ELSE origin
        /\ initializations' = IF r.err = "Ok" THEN [initializations EXCEPT ![owner] = @ + 1]
                               ELSE initializations
        /\ UNCHANGED <<policies, tokens, created, closed, activations, claims, paid>>

liquidate_policy(signer, owner, user, observation) ==
    LET r == LiquidatePolicy(policyB, lamports, owner, user, observation)
    IN  /\ CommitB(r)
        /\ last' = IF r.err = "Ok"
                       THEN LastB("liquidate_policy", owner, r.err, signer, user, observation)
                   ELSE LastB("liquidate_policy", owner, r.err, "none", Nobody, observation)
        /\ claims' = IF r.err = "Ok" THEN [claims EXCEPT ![owner] = @ + 1] ELSE claims
        /\ paid' = IF r.err = "Ok"
                       THEN [paid EXCEPT ![owner] = @ + policyB[owner].coverage_amount]
                       ELSE paid
        /\ UNCHANGED <<policies, tokens, created, closed, activations, origin, initializations>>

\* Anybody may send lamports to a vault: that is how it gets funded.
fund_vault(owner) ==
    /\ lamports[Vault(owner)] < MaxVault
    /\ lamports' = [lamports EXCEPT ![Vault(owner)] = @ + 1]
    /\ last' = LastB("fund_vault", owner, "Ok", "none", Nobody, NoObservation)
    /\ UNCHANGED <<policies, tokens, created, closed, activations, policyB, claims, paid, origin, initializations>>

NoCall == Done("none", <<"none", 0>>)

InitA ==
    /\ policies = [a \in PolicyAddresses |-> NoAccount]
    /\ tokens = [t \in TokenAccounts |-> InitialBalance]
    /\ created = [a \in PolicyAddresses |-> 0]
    /\ closed = [a \in PolicyAddresses |-> 0]
    /\ activations = [a \in PolicyAddresses |-> 0]
    /\ policyB = [o \in Owners |-> NoAccount]
    /\ lamports = [a \in LamportAccounts |-> 0]
    /\ claims = [o \in Owners |-> 0]
    /\ paid = [o \in Owners |-> 0]
    /\ origin = [policies |-> [a \in PolicyAddresses |-> NoAccount],
                 policyB |-> [o \in Owners |-> NoAccount]]
    /\ initializations = [o \in Owners |-> 0]
    /\ last = NoCall

CreateStep ==
    \E authority \in Wallets, nonce \in Nonces, strike_price \in Strikes,
       expiration_datetime \in Expirations, tag \in Tags,
       coverage_amount \in Coverages, premium \in Premiums,
       payout_wallet \in Wallets, payment_mint \in Mints :
        create_policy(authority, nonce, strike_price, expiration_datetime, tag[1], tag[2],
                      coverage_amount, premium, payout_wallet, payment_mint)

ActivateStep ==
    \E payer \in Wallets, addr \in ProgramPolicyAddresses, ata \in TokenAccounts :
        activate_policy(payer, addr, ata)

CloseStep ==
    \E authority \in Wallets, addr \in ProgramPolicyAddresses, payout \in BOOLEAN,
       ata \in TokenAccounts, pta \in TokenAccounts :
        close_policy(authority, addr, payout, ata, pta)

NextA == CreateStep \/ ActivateStep \/ CloseStep

SpecA == InitA /\ [][NextA]_vars

InitB ==
    /\ policies = [a \in PolicyAddresses |-> NoAccount]
    /\ tokens = [t \in TokenAccounts |-> InitialBalance]
    /\ created = [a \in PolicyAddresses |-> 0]
    /\ closed = [a \in PolicyAddresses |-> 0]
    /\ activations = [a \in PolicyAddresses |-> 0]
    /\ policyB = [o \in Owners |-> NoAccount]
    /\ lamports = [a \in LamportAccounts |-> 0]
    /\ claims = [o \in Owners |-> 0]
    /\ paid = [o \in Owners |-> 0]
    /\ origin = [policies |-> [a \in PolicyAddresses |-> NoAccount],
                 policyB |-> [o \in Owners |-> NoAccount]]
    /\ initializations = [o \in Owners |-> 0]
    /\ last = LastB("none", "none", "Ok", "none", Nobody, NoObservation)

InitializeStep ==
    \E owner \in Owners, strike_price \in StrikePrices, is_long_insurance \in BOOLEAN,
       coverage_amount \in CoverageAmounts :
        initialize_policy(owner, strike_price, is_long_insurance, coverage_amount)

LiquidateStep ==
    \E signer \in Signers, owner \in Owners, user \in LamportAccounts,
       observation \in Observations :
        liquidate_policy(signer, owner, user, observation)

FundStep == \E owner \in Owners : fund_vault(owner)

NextB == InitializeStep \/ LiquidateStep \/ FundStep

SpecB == InitB /\ [][NextB]_vars

(***************************************************************************)
(* The two programs on one ledger.  They share no account, so the          *)
(* instructions of both interleave freely; the arguments are the ones      *)
(* under which a record is created, activated, closed, initialized and     *)
(* liquidated, and the ones of a call by the wrong caller.                 *)
(***************************************************************************)
LedgerObservations ==
    {observation \in Observations : observation.age = 0 /\ observation.exponent = -8 /\ observation.magnitude.digits # Zero}

LedgerCreateStep ==
    \E authority \in Wallets, nonce \in Nonces, expiration_datetime \in Expirations, tag \in Tags, payout_wallet \in Wallets, payment_mint \in Mints :
        create_policy(authority, nonce, 95000, expiration_datetime, tag[1], tag[2], 1, 1, payout_wallet, payment_mint)

LedgerInitializeStep ==
    \E owner \in Owners, is_long_insurance \in BOOLEAN :
        initialize_policy(owner, 95000, is_long_insurance, 1)

LedgerLiquidateStep ==
    \E signer \in Signers, owner \in Owners, user \in LamportAccounts, observation \in LedgerObservations :
        liquidate_policy(signer, owner, user, observation)

NextLedger ==
    \/ LedgerCreateStep \/ ActivateStep \/ CloseStep
    \/ LedgerInitializeStep \/ LedgerLiquidateStep \/ FundStep

SpecLedger == InitA /\ [][NextLedger]_vars

(***************************************************************************)
(* Properties.  An instruction is a function of the accounts and of its    *)
(* arguments, so a property of every call is stated on the result of the   *)
(* instruction in every reachable state, for every argument of the model;  *)
(* Committed is what the ledger holds after the call.                      *)
(***************************************************************************)
IsActive(p) == p.initialized /\ p.status = "Active"
IsInactive(p) == p.initialized /\ p.status = "Inactive"

\* `after` is `before` with `amount` taken from `from` and given to `to`.
Moved(before, after, from, to, amount) ==
    /\ before[from] >= amount
    /\ after = IF from = to THEN before
               ELSE [before EXCEPT ![from] = @ - amount, ![to] = @ + amount]

\* The ledger after a policyfactory call is the ledger before it.
Untouched(after) == after.policies = policies /\ after.tokens = tokens

\* The ledger after a liqguard call is the ledger before it.
UntouchedB(after) == after.policyB = policyB /\ after.lamports = lamports

\* ------------------------------------------------------------------ C1
\* C1: activate_policy is atomic.  A call that fails (the payer holds less
\* than the premium, the authority token account is not the expected one, the
\* token transfer fails) leaves every record and every balance as it was; a
\* call that succeeds found the record Inactive, sets it Active and moved
\* exactly the premium from the payer's associated account to the authority's;
\* no other instruction makes a record Active.
C1_ActivateIsAtomic ==
    /\ \A addr \in ProgramPolicyAddresses : policies[addr].initialized =>
         \A payer \in Wallets, ata \in TokenAccounts :
            LET policy == policies[addr]
                r == ActivatePolicy(policies, tokens, payer, addr, ata)
                after == Committed(r)
                payer_ata == get_associated_token_address(payer, policy.payment_mint)
                authority_ata ==
                    get_associated_token_address(policy.authority, policy.payment_mint)
            IN  /\ (tokens[payer_ata] < policy.premium \/ ata # authority_ata)
                       => r.err # "Ok"
                /\ r.err # "Ok" => Untouched(after)
                /\ r.err = "Ok" =>
                       /\ IsInactive(policy)
                       /\ payer = policy.payout_wallet
                       /\ after.policies = [policies EXCEPT ![addr].status = "Active"]
                       /\ Moved(tokens, after.tokens, payer_ata, authority_ata,
                                policy.premium)
    /\ \A authority \in Wallets, nonce \in Nonces, strike_price \in Strikes,
          expiration_datetime \in Expirations, tag \in Tags,
          coverage_amount \in Coverages, premium \in Premiums,
          payout_wallet \in Wallets, payment_mint \in Mints :
            LET after == Committed(CreatePolicy(policies, tokens, authority, nonce,
                             strike_price, expiration_datetime, tag[1], tag[2],
                             coverage_amount, premium, payout_wallet, payment_mint))
            IN  \A a \in PolicyAddresses :
                    IsActive(after.policies[a]) => IsActive(policies[a])
    /\ \A authority \in Wallets, addr \in ProgramPolicyAddresses, payout \in BOOLEAN,
          ata \in TokenAccounts, pta \in TokenAccounts :
            LET after == Committed(ClosePolicy(policies, tokens, authority, addr,
                                               payout, ata, pta))
            IN  \A a \in PolicyAddresses :
                    IsActive(after.policies[a]) => IsActive(policies[a])

\* An activate_policy by the right payer, who holds less than the premium, was
\* refused and the record is still Inactive.
C1_Witness ==
    /\ last.op = "activate_policy"
    /\ last.err = "InsufficientBalance"
    /\ IsInactive(policies[last.addr])
    /\ tokens[get_associated_token_address(policies[last.addr].payout_wallet,
                                           policies[last.addr].payment_mint)]
           < policies[last.addr].premium

\* ------------------------------------------------------------------ C2
\* C2: a liquidate_policy that succeeds takes exactly coverage_amount from the
\* owner's vault and gives it to the recipient of the owner, the owner's own
\* account, whichever relayer signed and whichever account was passed as `user`.
C2_PayoutReachesOwner ==
    (last.op = "liquidate_policy" /\ last.err = "Ok") =>
        LET policy == policyB[last.owner]
        IN  /\ paid[last.owner] = policy.coverage_amount
            /\ policy.coverage_amount > 0 => last.user = Wallet(policy.owner)

\* ------------------------------------------------------------------ C3
\* C3 as the specification states it: create_policy succeeds at most once for
\* a pair (authority, nonce), closing the record does not free the address.
C3_CreatedAtMostOnce == \A a \in PolicyAddresses : created[a] <= 1

\* C3: create_policy succeeds at most once for a pair (authority, nonce) for
\* as long as the record exists: every success finds the address empty, and a
\* further success for the same pair follows a close_policy that deleted the
\* record.  The successes are the closes plus one if the record exists.
C3_CreatedOncePerRecord ==
    \A a \in PolicyAddresses :
        created[a] = closed[a] + (IF policies[a].initialized THEN 1 ELSE 0)

\* A record created again at an address whose record was closed.
C3_Witness ==
    \E a \in PolicyAddresses :
        /\ created[a] = 2
        /\ closed[a] = 1
        /\ IsInactive(policies[a])
        /\ last = Done("create_policy", a)

\* ------------------------------------------------------------------ C4
\* C4: while a record exists at the address of (authority, nonce), every
\* create_policy for that pair fails, whatever its other arguments, and leaves
\* the record as it is; on an empty address a call by PROGRAM_AUTHORITY with
\* positive premium, coverage and strike succeeds and writes the record with
\* the terms given and status Inactive.
C4_CreateOnExistingFails ==
    \A authority \in Wallets, nonce \in Nonces, strike_price \in Strikes,
       expiration_datetime \in Expirations, tag \in Tags,
       coverage_amount \in Coverages, premium \in Premiums,
       payout_wallet \in Wallets, payment_mint \in Mints :
        LET addr == PolicyAddress(authority, nonce)
            r == CreatePolicy(policies, tokens, authority, nonce, strike_price,
                              expiration_datetime, tag[1], tag[2], coverage_amount,
                              premium, payout_wallet, payment_mint)
            after == Committed(r)
        IN  /\ policies[addr].initialized => (r.err # "Ok" /\ Untouched(after))
            /\ (/\ ~policies[addr].initialized
                /\ authority = PROGRAM_AUTHORITY
                /\ premium > 0 /\ coverage_amount > 0 /\ strike_price > 0) =>
                   /\ r.err = "Ok"
                   /\ after.tokens = tokens
                   /\ after.policies =
                          [policies EXCEPT ![addr] =
                              [initialized |-> TRUE, authority |-> authority,
                               nonce |-> nonce, strike_price |-> strike_price,
                               expiration_datetime |-> expiration_datetime,
                               underlying_asset |-> tag[1], call_or_put |-> tag[2],
                               coverage_amount |-> coverage_amount,
                               premium |-> premium, payout_wallet |-> payout_wallet,
                               payment_mint |-> payment_mint, status |-> "Inactive"]]

\* A create_policy on an address that holds a record was refused.
C4_Witness ==
    /\ last.op = "create_policy"
    /\ last.err = "AccountInUse"
    /\ policies[last.addr].initialized
    /\ created[last.addr] = 1

\* ------------------------------------------------------------------ C5
\* C5: once a liquidate_policy succeeded for an owner, every later one fails
\* with AlreadyClaimed and moves nothing; is_claimed goes from false to true
\* and never back; liquidation takes at most coverage_amount from one vault.
C5_ClaimedOnce ==
    \A owner \in Owners :
        /\ claims[owner] <= 1
        /\ claims[owner] = 1 <=> (policyB[owner].initialized /\ policyB[owner].is_claimed)
        /\ paid[owner] <= (IF policyB[owner].initialized
                               THEN policyB[owner].coverage_amount ELSE 0)
        /\ claims[owner] = 1 =>
               \A user \in LamportAccounts, observation \in Observations :
                   LET r == LiquidatePolicy(policyB, lamports, owner, user, observation)
                   IN  r.err = "AlreadyClaimed" /\ UntouchedB(CommittedB(r))

\* A second liquidate_policy on a policy that paid out was refused.
C5_Witness ==
    /\ last.op = "liquidate_policy"
    /\ last.err = "AlreadyClaimed"
    /\ claims[last.owner] = 1
    /\ paid[last.owner] > 0
    /\ policyB[last.owner].is_claimed

\* The USD price of an observation, as a number: dividing by 10^k drops the
\* last k digits.
RECURSIVE Number(_)
Number(digits) ==
    IF digits = <<>> THEN 0
    ELSE 10 * Number(SubSeq(digits, 1, Len(digits) - 1)) + digits[Len(digits)]

Usd(observation) ==
    LET digits == observation.magnitude.digits
        k == IF observation.exponent < 0 THEN -observation.exponent
             ELSE observation.exponent
    IN  IF Len(digits) <= k THEN 0 ELSE Number(SubSeq(digits, 1, Len(digits) - k))

\* The trigger rule on numbers.
Triggered(policy, observation) ==
    IF policy.is_long_insurance
        THEN Usd(observation) < policy.strike_price
    ELSE Usd(observation) > policy.strike_price

\* The observation passes the staleness and normalisation gates: 10^19 is the
\* largest power of ten of 64 bits.
Usable(observation) ==
    /\ observation.age <= MAXIMUM_AGE
    /\ ~observation.magnitude.negative
    /\ observation.exponent <= 19 /\ observation.exponent >= -19

\* ------------------------------------------------------------------ C6
\* C6: liquidate_policy is atomic.  When a gate fails (already claimed, stale
\* price, negative magnitude, normalisation overflow, rule not met, vault
\* below coverage_amount) the call fails, the policy is unclaimed as before
\* and no balance changes; when the call succeeds the policy was unclaimed,
\* is claimed now, and coverage_amount left the vault for `user`.
C6_LiquidateIsAtomic ==
    \A owner \in Owners : policyB[owner].initialized =>
        \A user \in LamportAccounts, observation \in Observations :
            LET policy == policyB[owner]
                r == LiquidatePolicy(policyB, lamports, owner, user, observation)
                after == CommittedB(r)
                gate_fails ==
                    \/ policy.is_claimed
                    \/ ~Usable(observation)
                    \/ ~Triggered(policy, observation)
                    \/ lamports[Vault(owner)] < policy.coverage_amount
            IN  /\ gate_fails => r.err # "Ok"
                /\ r.err # "Ok" => UntouchedB(after)
                /\ r.err = "Ok" =>
                       /\ ~policy.is_claimed
                       /\ after.policyB = [policyB EXCEPT ![owner].is_claimed = TRUE]
                       /\ Moved(lamports, after.lamports, Vault(owner), user,
                                policy.coverage_amount)

\* A liquidate_policy whose rule was met found the vault short: it was refused
\* and the policy is unclaimed.
C6_Witness ==
    /\ last.op = "liquidate_policy"
    /\ last.err = "TransferFailed"
    /\ ~policyB[last.owner].is_claimed
    /\ Triggered(policyB[last.owner], last.observation)
    /\ lamports[Vault(last.owner)] < policyB[last.owner].coverage_amount

\* ------------------------------------------------------------------ C7
\* C7: close_policy by PROGRAM_AUTHORITY with payout = true on an Active
\* record, with the expected token accounts and the authority's account
\* holding coverage_amount, succeeds, transfers exactly coverage_amount from
\* the authority's associated account to the payout wallet's and deletes the
\* record; with payout = false it deletes the record and no balance changes.
C7_ClosePaysCoverage ==
    \A addr \in ProgramPolicyAddresses : policies[addr].initialized =>
        \A payout \in BOOLEAN, ata \in TokenAccounts, pta \in TokenAccounts :
            LET policy == policies[addr]
                r == ClosePolicy(policies, tokens, PROGRAM_AUTHORITY, addr, payout,
                                 ata, pta)
                after == Committed(r)
                authority_ata ==
                    get_associated_token_address(policy.authority, policy.payment_mint)
                payout_ata ==
                    get_associated_token_address(policy.payout_wallet,
                                                 policy.payment_mint)
            IN  /\ (/\ payout /\ IsActive(policy)
                    /\ ata = authority_ata /\ pta = payout_ata
                    /\ tokens[authority_ata] >= policy.coverage_amount) =>
                       /\ r.err = "Ok"
                       /\ after.policies = [policies EXCEPT ![addr] = NoAccount]
                       /\ Moved(tokens, after.tokens, authority_ata, payout_ata,
                                policy.coverage_amount)
                /\ ~payout =>
                       /\ r.err = "Ok"
                       /\ after.policies = [policies EXCEPT ![addr] = NoAccount]
                       /\ after.tokens = tokens

\* An Active record of another wallet, with coverage above the premium, was
\* closed with a payout.
C7_Witness ==
    /\ last.op = "close_policy"
    /\ last.err = "Ok"
    /\ last.payout
    /\ IsActive(last.before)
    /\ last.authority_ata_expected /\ last.payout_ata_expected
    /\ last.before.payout_wallet # PROGRAM_AUTHORITY
    /\ last.before.coverage_amount > last.before.premium
    /\ ~policies[last.addr].initialized

\* ------------------------------------------------------------------ C8
\* C8: close_policy by PROGRAM_AUTHORITY with payout = true on an Inactive
\* record succeeds whatever token accounts are passed and whatever they hold,
\* deletes the record and changes no balance.
C8_CloseInactiveSkipsPayout ==
    \A addr \in ProgramPolicyAddresses : IsInactive(policies[addr]) =>
        \A ata \in TokenAccounts, pta \in TokenAccounts :
            LET r == ClosePolicy(policies, tokens, PROGRAM_AUTHORITY, addr, TRUE,
                                 ata, pta)
                after == Committed(r)
            IN  /\ r.err = "Ok"
                /\ after.policies = [policies EXCEPT ![addr] = NoAccount]
                /\ after.tokens = tokens

\* An Inactive record was closed with payout = true, a token account that is
\* not the authority's and an authority account below the coverage.
C8_Witness ==
    /\ last.op = "close_policy"
    /\ last.err = "Ok"
    /\ last.payout
    /\ IsInactive(last.before)
    /\ ~last.authority_ata_expected
    /\ tokens[get_associated_token_address(last.before.authority,
                                           last.before.payment_mint)]
           < last.before.coverage_amount
    /\ ~policies[last.addr].initialized

\* ------------------------------------------------------------------ C9
\* A close_policy by another caller than PROGRAM_AUTHORITY and an
\* activate_policy by another payer than policy.payout_wallet, on an existing
\* record: the call fails with the error in `err` and changes nothing,
\* whatever the payout flag, the token accounts and the status.
WrongCallerRefused ==
    \A addr \in ProgramPolicyAddresses : policies[addr].initialized =>
        /\ \A authority \in Wallets \ {PROGRAM_AUTHORITY}, payout \in BOOLEAN,
              ata \in TokenAccounts, pta \in TokenAccounts :
                LET r == ClosePolicy(policies, tokens, authority, addr, payout,
                                     ata, pta)
                IN  r.err = "UnauthorizedProgramAuthority" /\ Untouched(Committed(r))
        /\ \A payer \in Wallets \ {policies[addr].payout_wallet},
              ata \in TokenAccounts :
                LET r == ActivatePolicy(policies, tokens, payer, addr, ata)
                IN  r.err = "UnauthorizedPayer" /\ Untouched(Committed(r))

\* C9 as the specification states it: a call by a caller of the wrong identity
\* always fails with the Unauthorized error of that role, the role check being
\* the first gate, create_policy included.
C9_RoleCheckIsFirstGate ==
    /\ (last.op = "create_policy" /\ last.addr[1] # PROGRAM_AUTHORITY) =>
           last.err = "UnauthorizedProgramAuthority"
    /\ WrongCallerRefused

\* C9: a call by a caller of the wrong identity always fails and changes no
\* record and no balance, whatever its other arguments and the status.  For
\* close_policy and activate_policy the role check is the first gate and the
\* error is the Unauthorized error of the role; create_policy checks premium,
\* coverage and strike price first, so a wrong caller passing a zero amount
\* gets InvalidAmount, and UnauthorizedProgramAuthority otherwise.
C9_WrongCallerAlwaysRefused ==
    /\ WrongCallerRefused
    /\ \A authority \in Wallets \ {PROGRAM_AUTHORITY}, nonce \in Nonces,
          strike_price \in Strikes, expiration_datetime \in Expirations,
          tag \in Tags, coverage_amount \in Coverages, premium \in Premiums,
          payout_wallet \in Wallets, payment_mint \in Mints :
            LET r == CreatePolicy(policies, tokens, authority, nonce, strike_price,
                                  expiration_datetime, tag[1], tag[2],
                                  coverage_amount, premium, payout_wallet,
                                  payment_mint)
            IN  /\ r.err = IF premium = 0 \/ coverage_amount = 0 \/ strike_price = 0
                               THEN "InvalidAmount"
                           ELSE "UnauthorizedProgramAuthority"
                /\ Untouched(Committed(r))

\* A create_policy by another caller than PROGRAM_AUTHORITY was refused for
\* its amounts, while an Active record exists that the caller could not touch.
C9_Witness ==
    /\ last.op = "create_policy"
    /\ last.addr[1] # PROGRAM_AUTHORITY
    /\ last.err = "InvalidAmount"
    /\ \E addr \in ProgramPolicyAddresses : IsActive(policies[addr])

\* ----------------------------------------------------------------- C10
\* C10: on an unclaimed policy and a usable observation, liquidate_policy
\* fails with LiquidationConditionNotMet exactly when the rule is not met
\* (long: price < strike, short: price > strike); at price = strike it fails
\* so for both directions, and the policy stays unclaimed with no transfer.
C10_ConditionNotMetIffRuleFalse ==
    \A owner \in Owners :
        (policyB[owner].initialized /\ ~policyB[owner].is_claimed) =>
            \A user \in LamportAccounts, observation \in Observations :
                Usable(observation) =>
                    LET policy == policyB[owner]
                        r == LiquidatePolicy(policyB, lamports, owner, user,
                                             observation)
                    IN  /\ r.err = "LiquidationConditionNotMet"
                               <=> ~Triggered(policy, observation)
                        /\ Usd(observation) = policy.strike_price =>
                               r.err = "LiquidationConditionNotMet"
                        /\ r.err = "LiquidationConditionNotMet" =>
                               UntouchedB(CommittedB(r))

\* A liquidate_policy at price = strike was refused, the vault holding the
\* coverage and the policy staying unclaimed.
C10_Witness ==
    /\ last.op = "liquidate_policy"
    /\ last.err = "LiquidationConditionNotMet"
    /\ Usd(last.observation) = policyB[last.owner].strike_price
    /\ ~policyB[last.owner].is_claimed
    /\ policyB[last.owner].coverage_amount > 0
    /\ lamports[Vault(last.owner)] >= policyB[last.owner].coverage_amount

\* ----------------------------------------------------------------- C11
\* The digits of a number without its last k digits: the truncating quotient
\* by 10^k.
Truncated(digits, k) ==
    IF Len(digits) <= k THEN Zero ELSE SubSeq(digits, 1, Len(digits) - k)

\* C11: for a magnitude >= 0 the price compared with the strike is the
\* truncating quotient magnitude / 10^|exponent| (0 gives 0, 9500000000000
\* with exponent -8 gives 95000); when 10^|exponent| does not fit 64 bits,
\* liquidate_policy on an unclaimed policy and a fresh observation fails with
\* MathOverflow, and it does not when the power fits.
C11_PriceIsTruncatedQuotient ==
    /\ \A price \in PriceInputs : ~price.magnitude.negative =>
           CurrentPrice(price) =
               IF abs(price.exponent) <= 19
                   THEN Some(Truncated(price.magnitude.digits, abs(price.exponent)))
               ELSE None
    /\ current_price([magnitude |-> Magnitude(FALSE, Zero), exponent |-> -8]) = Some(Zero)
    /\ current_price([magnitude |-> Magnitude(FALSE, <<9, 5, 0, 0, 0, 0, 0, 0, 0, 0, 0, 0, 0>>),
                      exponent |-> -8]) = Some(<<9, 5, 0, 0, 0>>)
    /\ \A owner \in Owners :
           (policyB[owner].initialized /\ ~policyB[owner].is_claimed) =>
               \A user \in LamportAccounts, observation \in Observations :
                   (observation.age <= MAXIMUM_AGE /\ ~observation.magnitude.negative) =>
                       LET r == LiquidatePolicy(policyB, lamports, owner, user, observation)
                       IN  /\ r.err = "MathOverflow" <=> abs(observation.exponent) > 19
                           /\ r.err = "MathOverflow" => UntouchedB(CommittedB(r))

\* A liquidate_policy with a non-negative magnitude and exponent -20 was
\* refused with MathOverflow, the magnitude being one that exponent -8 puts
\* below the strike of a long policy.
C11_Witness ==
    /\ last.op = "liquidate_policy"
    /\ last.err = "MathOverflow"
    /\ ~last.observation.magnitude.negative
    /\ last.observation.exponent = -20
    /\ last.observation.magnitude.digits = <<9, 4, 9, 9, 9, 9, 9, 9, 9, 9, 9, 9, 9>>
    /\ policyB[last.owner].is_long_insurance
    /\ ~policyB[last.owner].is_claimed

\* ----------------------------------------------------------------- C12
\* C12: on an unclaimed policy liquidate_policy passes the freshness gate for
\* every observation of age at most 60, age 60 included, and fails with
\* PriceStale for every age above 60; then nothing is transferred and the
\* policy stays unclaimed, also when the price meets the rule.
C12_StaleAbove60 ==
    \A owner \in Owners :
        (policyB[owner].initialized /\ ~policyB[owner].is_claimed) =>
            \A user \in LamportAccounts, observation \in Observations :
                LET r == LiquidatePolicy(policyB, lamports, owner, user, observation)
                IN  /\ r.err = "PriceStale" <=> observation.age > 60
                    /\ r.err = "PriceStale" => UntouchedB(CommittedB(r))
                    /\ (/\ observation.age <= 60
                        /\ Usable(observation)
                        /\ Triggered(policyB[owner], observation)
                        /\ lamports[Vault(owner)] >= policyB[owner].coverage_amount) =>
                           r.err = "Ok"

\* A liquidate_policy with an observation of age 61 whose price meets the rule
\* was refused with PriceStale, the vault holding the coverage; the policy is
\* unclaimed.
C12_Witness ==
    /\ last.op = "liquidate_policy"
    /\ last.err = "PriceStale"
    /\ last.observation.age = 61
    /\ ~last.observation.magnitude.negative
    /\ last.observation.exponent = -8
    /\ Triggered(policyB[last.owner], last.observation)
    /\ ~policyB[last.owner].is_claimed
    /\ policyB[last.owner].coverage_amount > 0
    /\ lamports[Vault(last.owner)] >= policyB[last.owner].coverage_amount

\* ----------------------------------------------------------------- C13
\* Whatever instruction is called with whatever arguments, a record moves only
\* from Inactive to Active, by an activate_policy that succeeds, or to
\* deleted, by a close_policy that succeeds; create_policy touches no
\* existing record; a record is Active exactly when one activate_policy
\* succeeded on it, and none succeeds twice.
StatusMovesForward ==
    /\ \A a \in PolicyAddresses :
           /\ activations[a] <= 1
           /\ policies[a].initialized =>
                  (IsActive(policies[a]) <=> activations[a] = 1)
    /\ \A authority \in Wallets, nonce \in Nonces, strike_price \in Strikes,
          expiration_datetime \in Expirations, tag \in Tags,
          coverage_amount \in Coverages, premium \in Premiums,
          payout_wallet \in Wallets, payment_mint \in Mints :
            LET after == Committed(CreatePolicy(policies, tokens, authority, nonce,
                             strike_price, expiration_datetime, tag[1], tag[2],
                             coverage_amount, premium, payout_wallet, payment_mint))
            IN  \A a \in PolicyAddresses :
                    policies[a].initialized => after.policies[a] = policies[a]
    /\ \A payer \in Wallets, addr \in ProgramPolicyAddresses, ata \in TokenAccounts :
            LET r == ActivatePolicy(policies, tokens, payer, addr, ata)
                after == Committed(r)
            IN  \A a \in PolicyAddresses :
                    \/ after.policies[a] = policies[a]
                    \/ /\ a = addr /\ r.err = "Ok" /\ IsInactive(policies[a])
                       /\ after.policies[a] = [policies[a] EXCEPT !.status = "Active"]
    /\ \A authority \in Wallets, addr \in ProgramPolicyAddresses, payout \in BOOLEAN,
          ata \in TokenAccounts, pta \in TokenAccounts :
            LET r == ClosePolicy(policies, tokens, authority, addr, payout, ata, pta)
                after == Committed(r)
            IN  \A a \in PolicyAddresses :
                    \/ after.policies[a] = policies[a]
                    \/ a = addr /\ r.err = "Ok" /\ after.policies[a] = NoAccount

\* C13 as the specification states it: the status only moves forward, and an
\* activate_policy on an Active record fails with PolicyAlreadyActive, whoever
\* calls it.
C13_ActiveAlwaysAlreadyActive ==
    /\ StatusMovesForward
    /\ (last.op = "activate_policy" /\ last.err # "Ok"
            /\ IsActive(policies[last.addr])) => last.err = "PolicyAlreadyActive"

\* C13: the status of a record changes only Inactive -> Active, by a
\* successful activate_policy, or to deleted, by close_policy, never Active ->
\* Inactive; activate_policy on an Active record always fails and transfers
\* nothing, with PolicyAlreadyActive when the caller is policy.payout_wallet
\* and with UnauthorizedPayer, the first gate, when it is not; so the premium
\* is collected at most once per record.
C13_StatusOnlyForward ==
    /\ StatusMovesForward
    /\ \A addr \in ProgramPolicyAddresses : IsActive(policies[addr]) =>
           \A payer \in Wallets, ata \in TokenAccounts :
               LET r == ActivatePolicy(policies, tokens, payer, addr, ata)
               IN  /\ r.err = IF payer = policies[addr].payout_wallet
                                  THEN "PolicyAlreadyActive"
                              ELSE "UnauthorizedPayer"
                   /\ Untouched(Committed(r))

\* An activate_policy on an Active record was refused with
\* PolicyAlreadyActive, its payout wallet holding the premium once more.
C13_Witness ==
    /\ last.op = "activate_policy"
    /\ last.err = "PolicyAlreadyActive"
    /\ IsActive(policies[last.addr])
    /\ activations[last.addr] = 1
    /\ tokens[get_associated_token_address(policies[last.addr].payout_wallet,
                                           policies[last.addr].payment_mint)]
           >= policies[last.addr].premium

\* ----------------------------------------------------------------- C14
\* C14: when the record is Inactive, the caller is policy.payout_wallet and
\* holds at least the premium (exactly the premium is enough) and the
\* authority token account is the associated account of (policy.authority,
\* policy.payment_mint), activate_policy succeeds, takes exactly the premium
\* from the caller's account, gives exactly the premium to the authority's,
\* sets the status to Active and changes no other field, record or balance.
C14_ActivateMovesPremium ==
    \A addr \in ProgramPolicyAddresses : IsInactive(policies[addr]) =>
        LET policy == policies[addr]
            payer == policy.payout_wallet
            payer_ata == get_associated_token_address(payer, policy.payment_mint)
            authority_ata ==
                get_associated_token_address(policy.authority, policy.payment_mint)
            r == ActivatePolicy(policies, tokens, payer, addr, authority_ata)
            after == Committed(r)
        IN  tokens[payer_ata] >= policy.premium =>
                /\ r.err = "Ok"
                /\ after.policies = [policies EXCEPT ![addr].status = "Active"]
                /\ Moved(tokens, after.tokens, payer_ata, authority_ata, policy.premium)

\* An activate_policy by a payout wallet other than the authority succeeded
\* and took all the wallet held: its balance was exactly the premium.
C14_Witness ==
    /\ last = Done("activate_policy", last.addr)
    /\ last.op = "activate_policy"
    /\ IsActive(policies[last.addr])
    /\ policies[last.addr].payout_wallet # policies[last.addr].authority
    /\ policies[last.addr].premium > 0
    /\ tokens[get_associated_token_address(policies[last.addr].payout_wallet,
                                           policies[last.addr].payment_mint)] = 0

\* ----------------------------------------------------------------- C15
\* Every record that exists has a positive premium, coverage and strike.
RecordsArePositive ==
    \A a \in PolicyAddresses : policies[a].initialized =>
        /\ policies[a].premium > 0
        /\ policies[a].coverage_amount > 0
        /\ policies[a].strike_price > 0

\* C15 as the specification states it: a create_policy with a zero premium,
\* coverage or strike fails with InvalidAmount, whatever the address holds,
\* and allocates nothing; every record has positive amounts.
C15_ZeroAmountIsInvalidAmount ==
    /\ RecordsArePositive
    /\ \A authority \in Wallets, nonce \in Nonces, strike_price \in Strikes,
          expiration_datetime \in Expirations, tag \in Tags,
          coverage_amount \in Coverages, premium \in Premiums,
          payout_wallet \in Wallets, payment_mint \in Mints :
            (premium = 0 \/ coverage_amount = 0 \/ strike_price = 0) =>
                LET r == CreatePolicy(policies, tokens, authority, nonce, strike_price,
                                      expiration_datetime, tag[1], tag[2],
                                      coverage_amount, premium, payout_wallet,
                                      payment_mint)
                IN  r.err = "InvalidAmount" /\ Untouched(Committed(r))

\* C15: a create_policy with a zero premium, coverage or strike always fails
\* and allocates or changes no record: with InvalidAmount when the derived
\* address is empty, whoever calls, and at the `init` of the account, before
\* the handler runs, when a record exists there; every record has positive
\* amounts.
C15_ZeroAmountRefused ==
    /\ RecordsArePositive
    /\ \A authority \in Wallets, nonce \in Nonces, strike_price \in Strikes,
          expiration_datetime \in Expirations, tag \in Tags,
          coverage_amount \in Coverages, premium \in Premiums,
          payout_wallet \in Wallets, payment_mint \in Mints :
            (premium = 0 \/ coverage_amount = 0 \/ strike_price = 0) =>
                LET r == CreatePolicy(policies, tokens, authority, nonce, strike_price,
                                      expiration_datetime, tag[1], tag[2],
                                      coverage_amount, premium, payout_wallet,
                                      payment_mint)
                IN  /\ r.err = IF policies[PolicyAddress(authority, nonce)].initialized
                                   THEN "AccountInUse"
                               ELSE "InvalidAmount"
                    /\ Untouched(Committed(r))

\* A create_policy by PROGRAM_AUTHORITY on an empty address, one that held a
\* record before, was refused with InvalidAmount and the address is empty.
C15_Witness ==
    /\ last.op = "create_policy"
    /\ last.err = "InvalidAmount"
    /\ last.addr[1] = PROGRAM_AUTHORITY
    /\ ~policies[last.addr].initialized
    /\ closed[last.addr] = 1

\* ----------------------------------------------------------------- C16
\* C16: no instruction changes the terms of a policy.  A PolicyA record has
\* the authority, nonce, strike, expiry, asset and option tags, coverage,
\* premium, payout wallet and payment mint create_policy wrote, until it is
\* deleted, and activate_policy changes its status only; a PolicyB record has
\* the owner, strike, direction and coverage initialize_policy wrote, for
\* ever, and liquidate_policy changes its claimed flag only.
C16_TermsNeverChange ==
    /\ \A a \in PolicyAddresses : policies[a].initialized =>
           /\ origin.policies[a].initialized
           /\ \A field \in {"authority", "nonce", "strike_price", "expiration_datetime",
                            "underlying_asset", "call_or_put", "coverage_amount",
                            "premium", "payout_wallet", "payment_mint"} :
                  policies[a][field] = origin.policies[a][field]
    /\ \A o \in Owners : policyB[o].initialized =>
           /\ origin.policyB[o].initialized
           /\ \A field \in {"owner", "strike_price", "is_long_insurance", "coverage_amount"} :
                  policyB[o][field] = origin.policyB[o][field]
    /\ \A payer \in Wallets, addr \in ProgramPolicyAddresses, ata \in TokenAccounts :
           LET after == Committed(ActivatePolicy(policies, tokens, payer, addr, ata))
           IN  \A a \in PolicyAddresses :
                   \/ after.policies[a] = policies[a]
                   \/ /\ policies[a].initialized
                      /\ after.policies[a] = [policies[a] EXCEPT !.status = "Active"]
    /\ \A owner \in Owners, user \in LamportAccounts, observation \in Observations :
           LET after == CommittedB(LiquidatePolicy(policyB, lamports, owner, user,
                                                   observation))
           IN  \A o \in Owners :
                   \/ after.policyB[o] = policyB[o]
                   \/ /\ policyB[o].initialized
                      /\ after.policyB[o] = [policyB[o] EXCEPT !.is_claimed = TRUE]

\* A PolicyA record was activated and a PolicyB record was liquidated with a
\* payout: both exist, Active and claimed.
C16_Witness ==
    /\ \E a \in PolicyAddresses : IsActive(policies[a]) /\ activations[a] = 1
    /\ \E o \in Owners :
           /\ policyB[o].initialized /\ policyB[o].is_claimed
           /\ policyB[o].coverage_amount > 0
           /\ paid[o] = policyB[o].coverage_amount

\* ----------------------------------------------------------------- C17
\* C17: a close_policy with payout = true on an Active record that fails a
\* payout gate (the authority token account or the payout token account is
\* not the associated account of the policy's payment mint, or the authority's
\* account holds less than the coverage) aborts as a whole: nothing is
\* transferred, the record is not deleted and is Active as before.
C17_FailedPayoutAborts ==
    \A addr \in ProgramPolicyAddresses : IsActive(policies[addr]) =>
        \A authority \in Wallets, ata \in TokenAccounts, pta \in TokenAccounts :
            LET policy == policies[addr]
                r == ClosePolicy(policies, tokens, authority, addr, TRUE, ata, pta)
                after == Committed(r)
                authority_ata ==
                    get_associated_token_address(policy.authority, policy.payment_mint)
                payout_ata ==
                    get_associated_token_address(policy.payout_wallet,
                                                 policy.payment_mint)
            IN  (\/ ata # authority_ata
                 \/ pta # payout_ata
                 \/ tokens[authority_ata] < policy.coverage_amount) =>
                    /\ r.err # "Ok"
                    /\ after.tokens = tokens
                    /\ after.policies = policies
                    /\ IsActive(after.policies[addr])

\* A close_policy with payout = true on an Active record of another wallet
\* was refused, the authority's account holding less than the coverage: the
\* record is there and Active.
C17_Witness ==
    /\ last.op = "close_policy"
    /\ last.err = "InsufficientBalance"
    /\ IsActive(policies[last.addr])
    /\ policies[last.addr].payout_wallet # PROGRAM_AUTHORITY
    /\ tokens[get_associated_token_address(policies[last.addr].authority,
                                           policies[last.addr].payment_mint)]
           < policies[last.addr].coverage_amount

\* ----------------------------------------------------------------- C18
\* The first gate of liquidate_policy an observation fails on a policy, in the
\* order claimed flag, freshness, negative magnitude, normalisation, decision
\* rule; "none" when it passes them all.
FirstViolatedGate(policy, observation) ==
    IF policy.is_claimed THEN "AlreadyClaimed"
    ELSE IF observation.age > 60 THEN "PriceStale"
    ELSE IF observation.magnitude.negative THEN "MathOverflow"
    ELSE IF observation.exponent > 19 \/ observation.exponent < -19 THEN "MathOverflow"
    ELSE IF ~Triggered(policy, observation) THEN "LiquidationConditionNotMet"
    ELSE "none"

\* C18: the gates of liquidate_policy are evaluated in the order claimed flag,
\* observation freshness, negative magnitude, normalisation, decision rule,
\* and the error returned is the one of the first gate violated in that order
\* (AlreadyClaimed, PriceStale, MathOverflow, LiquidationConditionNotMet): a
\* claimed policy with a stale observation yields AlreadyClaimed, a stale
\* observation whose price would not trigger yields PriceStale.  A call that
\* passes them all fails on none of these.
C18_FirstViolatedGateDecides ==
    \A owner \in Owners : policyB[owner].initialized =>
        \A user \in LamportAccounts, observation \in Observations :
            LET r == LiquidatePolicy(policyB, lamports, owner, user, observation)
                gate == FirstViolatedGate(policyB[owner], observation)
            IN  /\ gate # "none" => r.err = gate
                /\ gate = "none" => r.err \in {"Ok", "TransferFailed"}

\* A liquidate_policy on a claimed policy with a stale observation of a
\* negative magnitude failed with AlreadyClaimed.
C18_Witness ==
    /\ last.op = "liquidate_policy"
    /\ last.err = "AlreadyClaimed"
    /\ policyB[last.owner].is_claimed
    /\ last.observation.age > 60
    /\ last.observation.magnitude.negative

\* ----------------------------------------------------------------- C19
\* C19: over any sequence of policyfactory instructions, close_policy moves a
\* coverage to a payout wallet for a record only if an activate_policy on
\* that same record succeeded before, which is when its premium went to the
\* authority's account: a record is Active exactly when it was activated
\* since it was created, and on a record never activated no close_policy,
\* whatever its arguments, changes a balance.
C19_PayoutOnlyAfterActivation ==
    \A addr \in ProgramPolicyAddresses :
        /\ policies[addr].initialized =>
               (IsActive(policies[addr]) <=> activations[addr] >= 1)
        /\ \A authority \in Wallets, payout \in BOOLEAN :
               \A ata \in TokenAccounts, pta \in TokenAccounts :
                   LET r == ClosePolicy(policies, tokens, authority, addr, payout, ata, pta)
                   IN  Committed(r).tokens # tokens => activations[addr] >= 1

\* A close_policy paid the coverage of a record to another wallet; the record
\* had been activated once since its creation.
C19_Witness ==
    /\ last.op = "close_policy"
    /\ last.err = "Ok"
    /\ last.payout
    /\ IsActive(last.before)
    /\ last.before.payout_wallet # PROGRAM_AUTHORITY
    /\ last.before.coverage_amount > 0
    /\ activations[last.addr] = 1
    /\ ~policies[last.addr].initialized

\* ----------------------------------------------------------------- C20
\* C20: the liqguard record of an owner sits at the address derived from the
\* owner alone and no instruction deletes it, so initialize_policy succeeds at
\* most once per owner: once the record is there it stays, every further
\* initialize_policy of that owner fails and leaves the record and the
\* balances as they are, also after the policy was claimed, and no
\* instruction takes a claimed policy back to unclaimed.
C20_InitializedOnce ==
    \A owner \in Owners :
        /\ initializations[owner] <= 1
        /\ initializations[owner] = 1 <=> policyB[owner].initialized
        /\ claims[owner] = 1 => (policyB[owner].initialized /\ policyB[owner].is_claimed)
        /\ policyB[owner].initialized =>
               /\ \A strike_price \in StrikePrices, is_long_insurance \in BOOLEAN :
                      \A coverage_amount \in CoverageAmounts :
                          LET r == InitializePolicy(policyB, lamports, owner, strike_price,
                                                    is_long_insurance, coverage_amount)
                          IN  r.err = "AccountInUse" /\ UntouchedB(CommittedB(r))
               /\ \A user \in LamportAccounts, observation \in Observations :
                      LET after == CommittedB(LiquidatePolicy(policyB, lamports, owner,
                                                              user, observation))
                      IN  /\ after.policyB[owner].initialized
                          /\ policyB[owner].is_claimed => after.policyB[owner].is_claimed

\* An initialize_policy of an owner whose policy had paid out was refused:
\* the record is the claimed one.
C20_Witness ==
    /\ last.op = "initialize_policy"
    /\ last.err = "AccountInUse"
    /\ initializations[last.owner] = 1
    /\ claims[last.owner] = 1
    /\ paid[last.owner] > 0
    /\ policyB[last.owner].is_claimed

=============================================================================
